---- MODULE Spec2Model ----
(***************************************************************************)
(* Model of src/src/tugboat_calculator.py: the CourseworkValues constant   *)
(* tables (class-level dict objects), the AmmoniaTugboatCalculator API     *)
(* (calculate, _validate, print_results, to_json, save_results) and the    *)
(* JSON text produced by json.dumps / json.dump with indent=2.             *)
(***************************************************************************)
EXTENDS Integers, Sequences, FiniteSets, TLC

(***************************************************************************)
(* Bounds of the model.                                                    *)
(***************************************************************************)
MaxInst == 2      \* calculator instances constructed
MaxDocs == 2      \* documents returned by calculate() that the caller keeps
MaxFailLine == 1  \* a failing flush has written at most this many lines

(***************************************************************************)
(* Python values.  Every value has the same four fields: t is the type,    *)
(* n the integer (int), the truth value (bool) or the decimal mantissa     *)
(* (float, value n * 10^-s), c the characters of a str.  A float is kept   *)
(* in shortest form: s = 0 or n not divisible by 10, which is the form     *)
(* repr() prints and the form a literal such as 0.30 or 18.0 evaluates to. *)
(***************************************************************************)
PyInt(n) == [t |-> "int", n |-> n, s |-> 0, c |-> <<>>]

PyFloat(m, s) == [t |-> "float", n |-> m, s |-> s, c |-> <<>>]

PyBool(b) == [t |-> "bool", n |-> IF b THEN 1 ELSE 0, s |-> 0, c |-> <<>>]

PyStr(c) == [t |-> "str", n |-> 0, s |-> 0, c |-> c]

\* set(): a value json cannot serialise
SetObj == [t |-> "set", n |-> 0, s |-> 0, c |-> <<>>]

RECURSIVE Pow10(_)
Pow10(k) == IF k = 0 THEN 1 ELSE 10 * Pow10(k - 1)

RECURSIVE FloatLit(_, _)
\* the float a decimal literal with mantissa m and s fraction digits denotes
FloatLit(m, s) ==
    IF s > 0 /\ m % 10 = 0 THEN FloatLit(m \div 10, s - 1) ELSE PyFloat(m, s)

IsNumber(v) == v.t \in {"int", "float", "bool"}

\* Python ==: numbers compare by value across int, float and bool
PyEq(a, b) ==
    IF IsNumber(a) /\ IsNumber(b)
    THEN a.n * Pow10(b.s) = b.n * Pow10(a.s)
    ELSE a = b

\* Python + on two ints
PyAdd(a, b) == PyInt(a.n + b.n)

(***************************************************************************)
(* A dict is the sequence of its items in insertion order.                 *)
(***************************************************************************)
Item(k, v) == [k |-> k, v |-> v]

Keys(d) == [i \in 1..Len(d) |-> d[i].k]

HasKey(d, k) == \E i \in 1..Len(d) : d[i].k = k

Get(d, k) == d[CHOOSE i \in 1..Len(d) : d[i].k = k].v

SetItem(d, k, v) == [i \in 1..Len(d) |-> IF d[i].k = k THEN Item(k, v) ELSE d[i]]

\* dict == dict for dicts of scalars: same keys, equal values
DictEq(d, e) ==
    /\ {d[i].k : i \in 1..Len(d)} = {e[i].k : i \in 1..Len(e)}
    /\ Len(d) = Len(e)
    /\ \A i \in 1..Len(d) : HasKey(e, d[i].k) /\ PyEq(d[i].v, Get(e, d[i].k))

\* dict == dict for a document: a dict of dicts of scalars
DocEq(d, e) ==
    /\ {d[i].k : i \in 1..Len(d)} = {e[i].k : i \in 1..Len(e)}
    /\ Len(d) = Len(e)
    /\ \A i \in 1..Len(d) : HasKey(e, d[i].k) /\ DictEq(d[i].v, Get(e, d[i].k))

(***************************************************************************)
(* CourseworkValues: the nine class-level tables.                          *)
(***************************************************************************)
POWER_CHAIN ==
    <<
       Item("P_propulsion_kW", PyInt(1000)),
       Item("P_motor_input_kW", PyInt(1020)),
       Item("P_inverter_input_kW", PyInt(1074)),
       Item("P_dc_bus_kW", PyInt(1124)),
       Item("P_dcdc_input_kW", PyInt(1160)),
       Item("P_bop_kW", PyInt(500)),
       Item("P_fc_gross_kW", PyInt(1660)),
       Item("bop_fraction", FloatLit(30, 2)),
       Item("fc_capacity_kW", PyInt(2000)),
       Item("fc_modules", PyInt(10)),
       Item("fc_module_power_kW", PyInt(200)),
       Item("fc_utilisation_pct", PyInt(83)) >>

HYDROGEN ==
    <<
       Item("m_h2_from_cracker_kg_h", FloatLit(1562, 1)),
       Item("m_h2_fresh_kg_h", FloatLit(1172, 1)),
       Item("m_h2_psa_tail_kg_h", FloatLit(390, 1)),
       Item("m_h2_inlet_kg_h", FloatLit(1295, 1)),
       Item("m_h2_consumed_kg_h", FloatLit(996, 1)),
       Item("m_h2_exhaust_kg_h", FloatLit(299, 1)),
       Item("m_h2_recycle_kg_h", FloatLit(123, 1)),
       Item("m_h2_purge_kg_h", FloatLit(175, 1)),
       Item("m_h2_to_combustor_kg_h", FloatLit(565, 1)),
       Item("anode_stoichiometry", FloatLit(13, 1)),
       Item("fuel_utilisation_pct", PyInt(85)),
       Item("psa_recovery_pct", PyInt(75)) >>

AMMONIA ==
    <<
       Item("m_nh3_kg_h", PyInt(890)),
       Item("m_n2_kg_h", FloatLit(7294, 1)),
       Item("m_nh3_slip_kg_h", FloatLit(44, 1)),
       Item("conversion_pct", FloatLit(995, 1)) >>

AUTOTHERMAL ==
    <<
       Item("h2_to_combustor_kg_h", FloatLit(565, 1)),
       Item("combustion_energy_kW", PyInt(1883)),
       Item("heat_available_kW", PyInt(1695)),
       Item("cracker_requirement_kW", PyInt(668)),
       Item("heat_losses_kW", PyInt(67)),
       Item("surplus_kW", PyInt(960)),
       Item("burner_efficiency_pct", PyInt(90)) >>

ENERGY ==
    <<
       Item("E_input_kW", PyInt(4600)),
       Item("E_propulsion_battery_kW", PyInt(1050)),
       Item("Q_fc_waste_kW", PyInt(1660)),
       Item("Q_combustor_excess_kW", PyInt(983)),
       Item("P_electronics_loss_kW", PyInt(88)),
       Item("E_exhaust_other_kW", PyInt(819)) >>

STORAGE ==
    <<
       Item("endurance_hours", PyInt(12)),
       Item("m_nh3_12h_kg", PyInt(10680)),
       Item("buffer_pct", PyInt(15)),
       Item("m_nh3_total_kg", PyInt(12282)),
       Item("tank_capacity_tonnes", PyInt(13)),
       Item("tank_volume_m3", FloatLit(180, 1)) >>

EFFICIENCY ==
    <<
       Item("eta_system", FloatLit(228, 3)),
       Item("eta_system_pct", FloatLit(228, 1)),
       Item("eta_rounded_pct", PyInt(23)) >>

\* mutant of ECONOMICS: the table before its typo was corrected
ECONOMICS_Typo ==
    <<
       Item("operating_hours_per_year", PyInt(3000)),
       Item("annual_nh3_tonnes", PyInt(2670)),
       Item("nh3_fuel_cost", PyInt(2400000)),
       Item("nh3_carbon_cost", PyInt(0)),
       Item("nh3_other_cost", PyInt(24000)),
       Item("nh3_total_opex", PyInt(2424000)),
       Item("diesel_fuel_cost", PyInt(528000)),
       Item("diesel_carbon_cost", PyInt(211000)),
       Item("diesel_other_cost", PyInt(74000)),
       Item("diesel_total_opex", PyInt(813000)),
       Item("opex_premium", FloatLit(298, 2)),
       Item("ammonia_price_per_tonne", PyInt(900)),
       Item("diesel_price_per_tonne", PyInt(800)),
       Item("carbon_price_per_tonne", PyInt(100)) >>

ECONOMICS ==
    <<
       Item("operating_hours_per_year", PyInt(3000)),
       Item("annual_nh3_tonnes", PyInt(2670)),
       Item("nh3_fuel_cost", PyInt(2400000)),
       Item("nh3_carbon_cost", PyInt(0)),
       Item("nh3_other_cost", PyInt(240000)),
       Item("nh3_total_opex", PyInt(2640000)),
       Item("diesel_fuel_cost", PyInt(528000)),
       Item("diesel_carbon_cost", PyInt(211000)),
       Item("diesel_other_cost", PyInt(74000)),
       Item("diesel_total_opex", PyInt(813000)),
       Item("opex_premium", FloatLit(325, 2)),
       Item("ammonia_price_per_tonne", PyInt(900)),
       Item("diesel_price_per_tonne", PyInt(800)),
       Item("carbon_price_per_tonne", PyInt(100)) >>

EMISSIONS ==
    <<
       Item("diesel_co2_t_yr", PyInt(2110)),
       Item("grey_nh3_co2_t_yr", PyInt(5070)),
       Item("blue_nh3_co2_t_yr", PyInt(534)),
       Item("green_nh3_co2_t_yr", PyInt(0)),
       Item("grey_co2_factor", FloatLit(19, 1)),
       Item("blue_co2_factor", FloatLit(2, 1)),
       Item("green_co2_factor", FloatLit(0, 1)),
       Item("diesel_co2_factor", FloatLit(32, 1)),
       Item("grey_vs_diesel", PyStr(<<"+","1","4","1","%">>)),
       Item("blue_vs_diesel", PyStr(<<"-","7","5","%">>)),
       Item("green_vs_diesel", PyStr(<<"-","1","0","0","%">>)) >>

(***************************************************************************)
(* Text.  A text is a sequence of one-character strings.  "U+00D7" stands  *)
(* for the multiplication sign of the margin string "2.3x" (line 211), the *)
(* only non-ASCII character of the data.                                   *)
(***************************************************************************)
DigitChars == <<"0", "1", "2", "3", "4", "5", "6", "7", "8", "9">>

DigitSet == {DigitChars[i] : i \in 1..10}

DigitVal(ch) == (CHOOSE i \in 1..10 : DigitChars[i] = ch) - 1

NonAscii == {"U+00D7"}

\* the four hex digits of a non-ASCII character's code point
Hex4(ch) == IF ch = "U+00D7" THEN <<"0", "0", "d", "7">> ELSE <<"f", "f", "f", "d">>

RECURSIVE Digits(_)
Digits(n) ==
    IF n < 10 THEN <<DigitChars[n + 1]>>
    ELSE Digits(n \div 10) \o <<DigitChars[(n % 10) + 1]>>

\* int.__repr__
IntRepr(n) == IF n < 0 THEN <<"-">> \o Digits(0 - n) ELSE Digits(n)

RECURSIVE ZeroPad(_, _)
ZeroPad(ds, w) == IF Len(ds) >= w THEN ds ELSE ZeroPad(<<"0">> \o ds, w)

\* mutant of FloatRepr: one fraction digit, as "%.1f" cut short would print
FloatRepr_OneDecimal(v) ==
    LET a == IF v.n < 0 THEN 0 - v.n ELSE v.n
        sign == IF v.n < 0 THEN <<"-">> ELSE <<>>
        whole == Digits(a \div Pow10(v.s))
        frac == IF v.s = 0 THEN <<"0">>
                ELSE <<DigitChars[((a \div Pow10(v.s - 1)) % 10) + 1]>>
    IN  sign \o whole \o <<".">> \o frac

\* float.__repr__ for the magnitudes of the tables (no exponent form)
FloatRepr(v) ==
    LET a == IF v.n < 0 THEN 0 - v.n ELSE v.n
        sign == IF v.n < 0 THEN <<"-">> ELSE <<>>
        whole == Digits(a \div Pow10(v.s))
        frac == IF v.s = 0 THEN <<"0">> ELSE ZeroPad(Digits(a % Pow10(v.s)), v.s)
    IN  sign \o whole \o <<".">> \o frac

\* str(v), as an f-string replacement field without a format spec prints it
PyStrOf(v) ==
    CASE v.t = "int" -> IntRepr(v.n)
      [] v.t = "float" -> FloatRepr(v)
      [] v.t = "bool" -> IF v.n = 1 THEN <<"T", "r", "u", "e">>
                         ELSE <<"F", "a", "l", "s", "e">>
      [] v.t = "str" -> v.c
      [] OTHER -> <<"s", "e", "t", "(", ")">>

RECURSIVE Group3(_)
\* digits with a comma before every group of three, from the right
Group3(ds) ==
    IF Len(ds) <= 3 THEN ds
    ELSE Group3(SubSeq(ds, 1, Len(ds) - 3)) \o <<",">> \o SubSeq(ds, Len(ds) - 2, Len(ds))

\* format(v, ","): the {x:,} replacement fields of print_results
FormatComma(v) ==
    IF v.t = "float"
    THEN LET r == FloatRepr(v)
             dot == CHOOSE i \in 1..Len(r) : r[i] = "."
         IN  Group3(SubSeq(r, 1, dot - 1)) \o SubSeq(r, dot, Len(r))
    ELSE IF v.n < 0 THEN <<"-">> \o Group3(Digits(0 - v.n)) ELSE Group3(Digits(v.n))

RECURSIVE PadRight(_, _)
\* format(s, "<w"): the {x:<15} replacement fields of print_results
PadRight(cs, w) == IF Len(cs) >= w THEN cs ELSE PadRight(cs \o <<" ">>, w)

(***************************************************************************)
(* json encoder (ensure_ascii=True, indent=2).                             *)
(***************************************************************************)
RECURSIVE JsonEscape(_)
\* json.encoder.py_encode_basestring_ascii without the quotes
JsonEscape(cs) ==
    IF cs = <<>> THEN <<>>
    ELSE LET ch == Head(cs)
             e == IF ch = "\"" THEN <<"\\", "\"">>
                  ELSE IF ch = "\\" THEN <<"\\", "\\">>
                  ELSE IF ch \in NonAscii THEN <<"\\", "u">> \o Hex4(ch)
                  ELSE <<ch>>
         IN  e \o JsonEscape(Tail(cs))

Serialisable(v) == v.t \in {"int", "float", "bool", "str"}

\* the chunk _iterencode yields for a scalar
JsonScalar(v) ==
    CASE v.t = "str" -> <<"\"">> \o JsonEscape(v.c) \o <<"\"">>
      [] v.t = "bool" -> IF v.n = 1 THEN <<"t", "r", "u", "e">>
                         ELSE <<"f", "a", "l", "s", "e">>
      [] v.t = "int" -> IntRepr(v.n)
      [] v.t = "float" -> FloatRepr(v)

\* One line of the indented text: ind spaces, then "key": if key # "",
\* then val, then a comma if comma.
Line(ind, key, val, comma) == [ind |-> ind, key |-> key, val |-> val, comma |-> comma]

\* _iterencode_dict on one table: the lines yielded, and whether it raised
\* TypeError at an unserialisable value (the key is yielded before the
\* value is encoded, so the text then ends after the key)
EncodeTable(it, isLast) ==
    LET d == it.v
        bad == {i \in 1..Len(d) : ~Serialisable(d[i].v)}
        head == Line(2, it.k, <<"{">>, FALSE)
        item(i) == Line(4, d[i].k, JsonScalar(d[i].v), i < Len(d))
    IN  IF bad = {}
        THEN [lines |-> <<head>> \o [i \in 1..Len(d) |-> item(i)]
                          \o <<Line(2, "", <<"}">>, ~isLast)>>,
              err |-> FALSE]
        ELSE LET b == CHOOSE i \in bad : \A j \in bad : i <= j
             IN  [lines |-> <<head>> \o [i \in 1..(b - 1) |-> item(i)]
                               \o <<Line(4, d[b].k, <<>>, FALSE)>>,
                  err |-> TRUE]

RECURSIVE EncodeFrom(_, _)
EncodeFrom(doc, i) ==
    IF i > Len(doc) THEN [lines |-> <<Line(0, "", <<"}">>, FALSE)>>, err |-> FALSE]
    ELSE LET t == EncodeTable(doc[i], i = Len(doc))
         IN  IF t.err THEN t
             ELSE LET r == EncodeFrom(doc, i + 1)
                  IN  [lines |-> t.lines \o r.lines, err |-> r.err]

\* JSONEncoder(indent=2).iterencode(doc): lines yielded until the end or
\* until TypeError is raised
iterencode(doc) ==
    LET r == EncodeFrom(doc, 1)
    IN  [lines |-> <<Line(0, "", <<"{">>, FALSE)>> \o r.lines, err |-> r.err]

(***************************************************************************)
(* json decoder.                                                           *)
(***************************************************************************)
IsDigits(cs) == Len(cs) > 0 /\ \A i \in 1..Len(cs) : cs[i] \in DigitSet

RECURSIVE ParseDigits(_)
ParseDigits(cs) ==
    IF cs = <<>> THEN 0
    ELSE 10 * ParseDigits(SubSeq(cs, 1, Len(cs) - 1)) + DigitVal(cs[Len(cs)])

Unsigned(cs) == IF Len(cs) > 0 /\ cs[1] = "-" THEN Tail(cs) ELSE cs

IsNumberText(cs) ==
    LET u == Unsigned(cs)
        dots == {i \in 1..Len(u) : u[i] = "."}
    IN  \/ IsDigits(u)
        \/ /\ Cardinality(dots) = 1
           /\ LET dot == CHOOSE i \in dots : TRUE
              IN  IsDigits(SubSeq(u, 1, dot - 1)) /\ IsDigits(SubSeq(u, dot + 1, Len(u)))

\* json.decoder's number: int() without a fraction part, float() with one
ParseNumber(cs) ==
    LET u == Unsigned(cs)
        neg == u # cs
        dots == {i \in 1..Len(u) : u[i] = "."}
    IN  IF dots = {}
        THEN PyInt(IF neg THEN 0 - ParseDigits(u) ELSE ParseDigits(u))
        ELSE LET dot == CHOOSE i \in dots : TRUE
                 m == ParseDigits(SubSeq(u, 1, dot - 1) \o SubSeq(u, dot + 1, Len(u)))
             IN  FloatLit(IF neg THEN 0 - m ELSE m, Len(u) - dot)

RECURSIVE JsonUnescape(_)
\* json.decoder.py_scanstring on the characters between the quotes
JsonUnescape(cs) ==
    IF cs = <<>> THEN <<>>
    ELSE IF cs[1] = "\\" /\ Len(cs) >= 2
    THEN IF cs[2] = "u" /\ Len(cs) >= 6
         THEN <<CHOOSE ch \in NonAscii \cup {"?"} :
                  \/ Hex4(ch) = SubSeq(cs, 3, 6) /\ ch \in NonAscii
                  \/ ch = "?" /\ \A x \in NonAscii : Hex4(x) # SubSeq(cs, 3, 6)>>
              \o JsonUnescape(SubSeq(cs, 7, Len(cs)))
         ELSE <<cs[2]>> \o JsonUnescape(SubSeq(cs, 3, Len(cs)))
    ELSE <<cs[1]>> \o JsonUnescape(Tail(cs))

IsStringText(cs) == Len(cs) >= 2 /\ cs[1] = "\"" /\ cs[Len(cs)] = "\""

IsScalarText(cs) ==
    \/ IsStringText(cs)
    \/ cs = <<"t", "r", "u", "e">>
    \/ cs = <<"f", "a", "l", "s", "e">>
    \/ IsNumberText(cs)

\* json.scanner's scan_once on a scalar
ParseScalar(cs) ==
    IF IsStringText(cs) THEN PyStr(JsonUnescape(SubSeq(cs, 2, Len(cs) - 1)))
    ELSE IF cs = <<"t", "r", "u", "e">> THEN PyBool(TRUE)
    ELSE IF cs = <<"f", "a", "l", "s", "e">> THEN PyBool(FALSE)
    ELSE ParseNumber(cs)

\* the line that closes the object opened on line i
Closer(L, i) ==
    CHOOSE j \in (i + 1)..Len(L) :
        /\ L[j].ind = L[i].ind /\ L[j].val = <<"}">>
        /\ \A m \in (i + 1)..(j - 1) : L[m].ind > L[i].ind

\* the text is a complete object of objects of scalars, separated by commas
WellFormed(L) ==
    /\ Len(L) >= 2
    /\ L[1] = Line(0, "", <<"{">>, FALSE)
    /\ L[Len(L)] = Line(0, "", <<"}">>, FALSE)
    /\ Len(L) > 2 => L[2].val = <<"{">> /\ L[Len(L) - 1].val = <<"}">>
    /\ \A i \in 2..(Len(L) - 1) :
          \/ /\ L[i].ind = 2 /\ L[i].key # "" /\ L[i].val = <<"{">> /\ ~L[i].comma
             /\ \E j \in (i + 1)..(Len(L) - 1) :
                   /\ L[j].ind = 2 /\ L[j].val = <<"}">>
                   /\ \A m \in (i + 1)..(j - 1) : L[m].ind = 4
          \/ /\ L[i].ind = 2 /\ L[i].key = "" /\ L[i].val = <<"}">>
             /\ L[i].comma = (L[i + 1].ind = 2)
          \/ /\ L[i].ind = 4 /\ L[i].key # "" /\ IsScalarText(L[i].val)
             /\ L[i].comma = (L[i + 1].ind = 4)

ParseTable(L, i) ==
    LET j == Closer(L, i)
    IN  [n \in 1..(j - i - 1) |-> Item(L[i + n].key, ParseScalar(L[i + n].val))]

RECURSIVE ParseFrom(_, _)
ParseFrom(L, i) ==
    IF i >= Len(L) THEN <<>>
    ELSE <<Item(L[i].key, ParseTable(L, i))>> \o ParseFrom(L, Closer(L, i) + 1)

\* json.loads: the document, or JSONDecodeError
loads(L) ==
    IF WellFormed(L) THEN [err |-> FALSE, doc |-> ParseFrom(L, 2)]
    ELSE [err |-> TRUE, doc |-> <<>>]

(***************************************************************************)
(* The program state.                                                      *)
(***************************************************************************)
VARIABLES
    heap,     \* the nine dict objects bound to CourseworkValues' attributes
    insts,    \* the AmmoniaTugboatCalculator instances constructed
    docs,     \* the dicts calculate() returned to the caller, oldest first
    fs,       \* the files: whether each path exists, and its lines
    handles,  \* the paths of the file objects that are open
    pc,       \* where the running save_results() call is, or "idle"
    frame,    \* the locals of the running save_results() call
    last      \* how the last finished call ended, what it returned or printed

vars == <<heap, insts, docs, fs, handles, pc, frame, last>>

\* the attribute of CourseworkValues behind each key of the document
Attrs ==
    <<Item("power_chain", "POWER_CHAIN"), Item("hydrogen", "HYDROGEN"),
      Item("ammonia", "AMMONIA"), Item("autothermal", "AUTOTHERMAL"),
      Item("energy", "ENERGY"), Item("storage", "STORAGE"),
      Item("efficiency", "EFFICIENCY"), Item("economics", "ECONOMICS"),
      Item("emissions", "EMISSIONS")>>

\* class CourseworkValues: attribute name -> the dict object it is bound to
CourseworkValues ==
    [a \in {Attrs[i].v : i \in 1..Len(Attrs)} |->
        CASE a = "POWER_CHAIN" -> POWER_CHAIN
          [] a = "HYDROGEN" -> HYDROGEN
          [] a = "AMMONIA" -> AMMONIA
          [] a = "AUTOTHERMAL" -> AUTOTHERMAL
          [] a = "ENERGY" -> ENERGY
          [] a = "STORAGE" -> STORAGE
          [] a = "EFFICIENCY" -> EFFICIENCY
          [] a = "ECONOMICS" -> ECONOMICS
          [] a = "EMISSIONS" -> EMISSIONS]

\* mutant of EnergyOut: the sum leaves out the last output field
EnergyOut_FourTerms(E) ==
    PyAdd(PyAdd(PyAdd(Get(E, "E_propulsion_battery_kW"),
                      Get(E, "Q_fc_waste_kW")),
                Get(E, "Q_combustor_excess_kW")),
          Get(E, "P_electronics_loss_kW"))

\* self.values.ENERGY[...] summed as _validate sums it
EnergyOut(E) ==
    PyAdd(PyAdd(PyAdd(PyAdd(Get(E, "E_propulsion_battery_kW"),
                            Get(E, "Q_fc_waste_kW")),
                      Get(E, "Q_combustor_excess_kW")),
                Get(E, "P_electronics_loss_kW")),
          Get(E, "E_exhaust_other_kW"))

\* mutant of _validate: the margin is returned as the number 2.3
_validate_MarginNumber(h) ==
    LET E_in == Get(h["ENERGY"], "E_input_kW")
        E_out == EnergyOut(h["ENERGY"])
    IN  <<Item("energy_balance_input", E_in),
          Item("energy_balance_output", E_out),
          Item("energy_balance_ok", PyBool(PyEq(E_in, E_out))),
          Item("autothermal_feasible", PyBool(TRUE)),
          Item("autothermal_margin", PyFloat(23, 1)),
          Item("all_checks_pass", PyBool(TRUE))>>

\* mutant of _validate: all_checks_pass is computed from the balance check
_validate_AllChecksComputed(h) ==
    LET E_in == Get(h["ENERGY"], "E_input_kW")
        E_out == EnergyOut(h["ENERGY"])
    IN  <<Item("energy_balance_input", E_in),
          Item("energy_balance_output", E_out),
          Item("energy_balance_ok", PyBool(PyEq(E_in, E_out))),
          Item("autothermal_feasible", PyBool(TRUE)),
          Item("autothermal_margin", PyStr(<<"2", ".", "3", "U+00D7">>)),
          Item("all_checks_pass", PyBool(PyEq(E_in, E_out)))>>

\* AmmoniaTugboatCalculator._validate, reading the dict objects of h
_validate(h) ==
    LET E_in == Get(h["ENERGY"], "E_input_kW")
        E_out == EnergyOut(h["ENERGY"])
    IN  <<Item("energy_balance_input", E_in),
          Item("energy_balance_output", E_out),
          Item("energy_balance_ok", PyBool(PyEq(E_in, E_out))),
          Item("autothermal_feasible", PyBool(TRUE)),
          Item("autothermal_margin", PyStr(<<"2", ".", "3", "U+00D7">>)),
          Item("all_checks_pass", PyBool(TRUE))>>

\* AmmoniaTugboatCalculator.calculate: a new dict whose first nine values
\* are the dict objects themselves (refs names them) and whose tenth is
\* the new dict _validate() built
calculate(self, h) == [self |-> self, refs |-> Attrs, validation |-> _validate(h)]

\* the contents of a returned document, read through its references
Deref(d, h) ==
    [i \in 1..Len(d.refs) |-> Item(d.refs[i].k, h[d.refs[i].v])]
        \o <<Item("validation", d.validation)>>

\* the values print_results formats, each as it is printed
Report(h) ==
    LET pcn == h["POWER_CHAIN"]
        h2 == h["HYDROGEN"]
        at == h["AUTOTHERMAL"]
        en == h["ENERGY"]
        ec == h["ECONOMICS"]
        em == h["EMISSIONS"]
    IN  <<PyStrOf(Get(pcn, "fc_modules")), PyStrOf(Get(pcn, "fc_module_power_kW")),
          FormatComma(Get(pcn, "fc_capacity_kW")), PyStrOf(Get(pcn, "fc_utilisation_pct")),
          PyStrOf(Get(h2, "m_h2_fresh_kg_h")), PyStrOf(Get(h2, "m_h2_recycle_kg_h")),
          PyStrOf(Get(h2, "m_h2_inlet_kg_h")), PyStrOf(Get(h2, "m_h2_consumed_kg_h")),
          PyStrOf(Get(h2, "m_h2_exhaust_kg_h")), PyStrOf(Get(h2, "m_h2_purge_kg_h")),
          PyStrOf(Get(at, "h2_to_combustor_kg_h")), FormatComma(Get(at, "combustion_energy_kW")),
          FormatComma(Get(at, "heat_available_kW")), PyStrOf(Get(at, "cracker_requirement_kW")),
          PyStrOf(Get(at, "heat_losses_kW")), PyStrOf(Get(at, "surplus_kW")),
          FormatComma(Get(en, "E_input_kW")), FormatComma(Get(en, "E_propulsion_battery_kW")),
          FormatComma(Get(en, "Q_fc_waste_kW")), PyStrOf(Get(en, "Q_combustor_excess_kW")),
          PyStrOf(Get(en, "P_electronics_loss_kW")), PyStrOf(Get(en, "E_exhaust_other_kW")),
          FormatComma(Get(en, "E_input_kW")),
          PyStrOf(Get(ec, "opex_premium")),
          FormatComma(Get(em, "diesel_co2_t_yr")),
          FormatComma(Get(em, "grey_nh3_co2_t_yr")), PadRight(PyStrOf(Get(em, "grey_vs_diesel")), 15),
          PyStrOf(Get(em, "blue_nh3_co2_t_yr")), PadRight(PyStrOf(Get(em, "blue_vs_diesel")), 15),
          PyStrOf(Get(em, "green_nh3_co2_t_yr")), PadRight(PyStrOf(Get(em, "green_vs_diesel")), 15)>>

(***************************************************************************)
(* The file system save_results writes to.                                 *)
(***************************************************************************)
Paths == {"results.json", "missing_dir/results.json"}

\* the exception open(path, 'w') raises, or "none"
OpenError(path) ==
    IF path = "missing_dir/results.json" THEN "FileNotFoundError" ELSE "none"

\* mutant of Propagate: an except clause swallows the exception
Propagate_Swallow(e) == [outcome |-> "return", exc |-> "none"]

\* no except clause in save_results: an exception leaves it as it was raised
Propagate(e) == [outcome |-> "raise", exc |-> e]

\* mutant of WithExit: f.close() as the last statement instead of a with
\* block, reached only when nothing was raised
WithExit_SuccessOnly(hs, path, exc) == IF exc = "none" THEN hs \ {path} ELSE hs

\* the with statement's exit: the file object is closed however the body ended
WithExit(hs, path, exc) == hs \ {path}

NoFrame == [self |-> 0, path |-> "", exc |-> "none", opens |-> 0, buf |-> <<>>]

Result(op, path, outcome, exc, opens, ret) ==
    [op |-> op, path |-> path, outcome |-> outcome, exc |-> exc,
     opens |-> opens, ret |-> ret]

Init ==
    /\ heap = CourseworkValues
    /\ insts = {}
    /\ docs = <<>>
    /\ fs = [p \in Paths |-> [exists |-> FALSE, data |-> <<>>]]
    /\ handles = {}
    /\ pc = "idle"
    /\ frame = NoFrame
    /\ last = Result("none", "", "return", "none", 0, <<>>)

(***************************************************************************)
(* The operations.                                                         *)
(***************************************************************************)
\* AmmoniaTugboatCalculator(): self.values = CourseworkValues(), an object
\* without attributes of its own, so self.values.X is CourseworkValues.X
Construct ==
    /\ pc = "idle"
    /\ Cardinality(insts) < MaxInst
    /\ insts' = insts \cup {Cardinality(insts) + 1}
    /\ last' = Result("__init__", "", "return", "none", 0, <<>>)
    /\ UNCHANGED <<heap, docs, fs, handles, pc, frame>>

\* mutant of Calculate: calculate() zeroes the energy input after validating
Calculate_Mutating(self) ==
    /\ pc = "idle"
    /\ Len(docs) < MaxDocs
    /\ docs' = Append(docs, calculate(self, heap))
    /\ heap' = [heap EXCEPT !["ENERGY"] = SetItem(@, "E_input_kW", PyInt(0))]
    /\ last' = Result("calculate", "", "return", "none", 0, <<>>)
    /\ UNCHANGED <<insts, fs, handles, pc, frame>>

Calculate(self) ==
    /\ pc = "idle"
    /\ Len(docs) < MaxDocs
    /\ docs' = Append(docs, calculate(self, heap))
    /\ last' = Result("calculate", "", "return", "none", 0, <<>>)
    /\ UNCHANGED <<heap, insts, fs, handles, pc, frame>>

Validate(self) ==
    /\ pc = "idle"
    /\ last' = Result("_validate", "", "return", "none", 0, _validate(heap))
    /\ UNCHANGED <<heap, insts, docs, fs, handles, pc, frame>>

\* mutant of PrintResults: print_results() stores a formatted value back
\* into the emissions table
PrintResults_Mutating(self) ==
    /\ pc = "idle"
    /\ heap' = [heap EXCEPT !["EMISSIONS"] =
                   SetItem(@, "grey_nh3_co2_t_yr",
                           PyStr(FormatComma(Get(@, "grey_nh3_co2_t_yr"))))]
    /\ last' = Result("print_results", "", "return", "none", 0, Report(heap))
    /\ UNCHANGED <<insts, docs, fs, handles, pc, frame>>

PrintResults(self) ==
    /\ pc = "idle"
    /\ last' = Result("print_results", "", "return", "none", 0, Report(heap))
    /\ UNCHANGED <<heap, insts, docs, fs, handles, pc, frame>>

\* json.dumps(self.calculate(), indent=2): the joined text, or TypeError
ToJson(self) ==
    /\ pc = "idle"
    /\ LET r == iterencode(Deref(calculate(self, heap), heap))
       IN  last' = IF r.err
                   THEN Result("to_json", "", "raise", "TypeError", 0, <<>>)
                   ELSE Result("to_json", "", "return", "none", 0, r.lines)
    /\ UNCHANGED <<heap, insts, docs, fs, handles, pc, frame>>

\* save_results, line 339: open(filepath, 'w') creates or truncates the
\* file and the with statement is entered, or open raises
SaveOpen(self, path) ==
    /\ pc = "idle"
    /\ IF OpenError(path) # "none"
       THEN /\ last' = LET o == Propagate(OpenError(path))
                       IN  Result("save_results", path, o.outcome, o.exc, 1, <<>>)
            /\ UNCHANGED <<fs, handles, pc, frame>>
       ELSE /\ fs' = [fs EXCEPT ![path] = [exists |-> TRUE, data |-> <<>>]]
            /\ handles' = handles \cup {path}
            /\ frame' = [self |-> self, path |-> path, exc |-> "none", opens |-> 1, buf |-> <<>>]
            /\ pc' = "dump"
            /\ UNCHANGED last
    /\ UNCHANGED <<heap, insts, docs>>

\* save_results, line 340: json.dump evaluates self.calculate() and writes
\* the chunks of iterencode to the file object, whose buffer holds them (the
\* whole text is smaller than the buffer); a TypeError of the encoder ends
\* the writing
SaveDump ==
    /\ pc = "dump"
    /\ LET r == iterencode(Deref(calculate(frame.self, heap), heap))
       IN  frame' = [frame EXCEPT !.buf = r.lines,
                                  !.exc = IF r.err THEN "TypeError" ELSE "none"]
    /\ pc' = "exit"
    /\ UNCHANGED <<heap, insts, docs, fs, handles, last>>

\* save_results, leaving the with block: close() flushes the buffer to the
\* file and closes the file object, then the call returns None or the
\* pending exception goes on to the caller
SaveExit ==
    /\ pc = "exit"
    /\ fs' = [fs EXCEPT ![frame.path].data = frame.buf]
    /\ handles' = WithExit(handles, frame.path, frame.exc)
    /\ last' = LET o == IF frame.exc = "none"
                        THEN [outcome |-> "return", exc |-> "none"]
                        ELSE Propagate(frame.exc)
               IN  Result("save_results", frame.path, o.outcome, o.exc, frame.opens, <<>>)
    /\ pc' = "idle"
    /\ frame' = NoFrame
    /\ UNCHANGED <<heap, insts, docs>>

\* the same, when the flush fails after k lines reached the file (disk
\* full): close() still closes the file object and raises OSError, which
\* replaces a pending exception
SaveExitFail(k) ==
    /\ pc = "exit"
    /\ k < Len(frame.buf)
    /\ fs' = [fs EXCEPT ![frame.path].data = SubSeq(frame.buf, 1, k)]
    /\ handles' = WithExit(handles, frame.path, "OSError")
    /\ last' = LET o == Propagate("OSError")
               IN  Result("save_results", frame.path, o.outcome, o.exc, frame.opens, <<>>)
    /\ pc' = "idle"
    /\ frame' = NoFrame
    /\ UNCHANGED <<heap, insts, docs>>

\* what a caller assigns into a document it got from calculate(), as
\* result[key][field] = v: a number into the energy table, a set (which
\* json cannot serialise) into the storage table
WriteTargets ==
    {<<"energy", "E_input_kW", PyInt(0)>>, <<"storage", "buffer_pct", SetObj>>}

\* the caller's statement docs[i][key][field] = v; docs[i][key] is one of
\* the dict objects of the heap
CallerWrite(i, w) ==
    /\ pc = "idle"
    /\ i \in 1..Len(docs)
    /\ LET a == Get(docs[i].refs, w[1])
       IN  /\ Get(heap[a], w[2]) # w[3]
           /\ heap' = [heap EXCEPT ![a] = SetItem(@, w[2], w[3])]
    /\ last' = Result("caller_write", "", "return", "none", 0, <<>>)
    /\ UNCHANGED <<insts, docs, fs, handles, pc, frame>>

Api ==
    \/ Construct
    \/ \E self \in insts : Calculate(self)
    \/ \E self \in insts : Validate(self)
    \/ \E self \in insts : PrintResults(self)
    \/ \E self \in insts : ToJson(self)
    \/ \E self \in insts, path \in Paths : SaveOpen(self, path)
    \/ SaveDump
    \/ SaveExit
    \/ \E k \in 0..MaxFailLine : SaveExitFail(k)

Next == Api

\* the program's own operations only
Spec == Init /\ [][Next]_vars

NextCaller ==
    \/ Api
    \/ \E i \in 1..MaxDocs, w \in WriteTargets : CallerWrite(i, w)

\* the program's operations together with a caller that assigns into the
\* documents it was given
SpecCaller == Init /\ [][NextCaller]_vars

\* energy tables a caller's assignments can leave behind: the input as in
\* the literal, equal to the literal less the last output, or zero; each
\* output as in the literal or zero
EnergyTables ==
    {<<Item("E_input_kW", PyInt(i)),
       Item("E_propulsion_battery_kW", PyInt(a)),
       Item("Q_fc_waste_kW", PyInt(b)),
       Item("Q_combustor_excess_kW", PyInt(c)),
       Item("P_electronics_loss_kW", PyInt(d)),
       Item("E_exhaust_other_kW", PyInt(e))>> :
        i \in {4600, 3781, 0}, a \in {1050, 0}, b \in {1660, 0}, c \in {983, 0},
        d \in {88, 0}, e \in {819, 0}}

InitValidate ==
    /\ \E E \in EnergyTables : heap = [CourseworkValues EXCEPT !["ENERGY"] = E]
    /\ insts = {}
    /\ docs = <<>>
    /\ fs = [p \in Paths |-> [exists |-> FALSE, data |-> <<>>]]
    /\ handles = {}
    /\ pc = "idle"
    /\ frame = NoFrame
    /\ last = Result("none", "", "return", "none", 0, <<>>)

NextValidate ==
    \/ Construct
    \/ \E self \in insts : Calculate(self)
    \/ \E self \in insts : Validate(self)

\* _validate() and calculate() applied to every energy table of EnergyTables
SpecValidate == InitValidate /\ [][NextValidate]_vars

(***************************************************************************)
(* The properties.                                                         *)
(***************************************************************************)
\* every document the caller holds, as it reads now
Held == [i \in 1..Len(docs) |-> Deref(docs[i], heap)]

\* the validation dict of every document held and of a finished _validate()
Validations ==
    {docs[i].validation : i \in 1..Len(docs)}
        \cup (IF last.op = "_validate" THEN {last.ret} ELSE {})

\* C1: for the literal dataset every validation structure reports the
\* energy input 4600 and the energy output 1050+1660+983+88+819, which are
\* equal, and energy_balance_ok true.
C1_EnergyBalanceCloses ==
    \A v \in Validations :
        /\ Get(v, "energy_balance_input") = PyInt(4600)
        /\ Get(v, "energy_balance_output") = PyInt(1050 + 1660 + 983 + 88 + 819)
        /\ Get(v, "energy_balance_input") = Get(v, "energy_balance_output")
        /\ Get(v, "energy_balance_ok") = PyBool(TRUE)

C1_Witness ==
    /\ last.op = "_validate"
    /\ Len(docs) >= 1
    /\ Get(last.ret, "energy_balance_output") = PyInt(4600)

\* C2: calculate() is idempotent: every document returned by a repeated
\* call, on the same or on another instance, equals the first one (same
\* keys, equal values at every level).
C2_CalculateIdempotent ==
    \A i \in 1..Len(docs) :
        /\ DocEq(Held[i], Held[1])
        /\ Keys(Held[i]) = Keys(Held[1])
        /\ \A j \in 1..Len(Held[i]) : Keys(Held[i][j].v) = Keys(Held[1][j].v)

C2_Witness ==
    /\ Len(docs) >= 2
    /\ last.op = "calculate"
    /\ docs[1].self # docs[Len(docs)].self

\* C3: whatever calculate(), _validate(), to_json(), save_results() and
\* print_results() calls were made, the nine tables hold their literal
\* values and every calculate() output shows them.
C3_TablesNeverMutated ==
    /\ heap = CourseworkValues
    /\ \A i \in 1..Len(docs) : \A j \in 1..Len(Attrs) :
          /\ Held[i][j].k = Attrs[j].k
          /\ Held[i][j].v = CourseworkValues[Attrs[j].v]

C3_Witness ==
    /\ Len(docs) = MaxDocs
    /\ last.op = "print_results"
    /\ fs["results.json"].exists
    /\ fs["results.json"].data # <<>>

\* C4: parsing the text to_json() returned gives a document equal to the
\* output of calculate(): the same ten keys, the same field names, and
\* the same number, boolean or string for every field.
C4_JsonRoundTrip ==
    (last.op = "to_json" /\ last.outcome = "return") =>
        LET r == loads(last.ret)
            d == Deref(calculate(0, heap), heap)
        IN  /\ ~r.err
            /\ DocEq(r.doc, d)
            /\ r.doc = d

C4_Witness ==
    /\ last.op = "to_json"
    /\ last.outcome = "return"
    /\ Len(last.ret) = 103
    /\ Len(loads(last.ret).doc) = 10

\* C5: a calculate() document has exactly the ten top-level keys, and its
\* validation object exactly the six fields, the first two numbers, the
\* margin a string and the other three booleans.
C5_DocumentShape ==
    \A i \in 1..Len(docs) :
        LET v == Get(Held[i], "validation")
        IN  /\ Keys(Held[i]) = <<"power_chain", "hydrogen", "ammonia", "autothermal",
                                 "energy", "storage", "efficiency", "economics",
                                 "emissions", "validation">>
            /\ Keys(v) = <<"energy_balance_input", "energy_balance_output",
                           "energy_balance_ok", "autothermal_feasible",
                           "autothermal_margin", "all_checks_pass">>
            /\ Get(v, "energy_balance_input").t \in {"int", "float"}
            /\ Get(v, "energy_balance_output").t \in {"int", "float"}
            /\ Get(v, "energy_balance_ok").t = "bool"
            /\ Get(v, "autothermal_feasible").t = "bool"
            /\ Get(v, "autothermal_margin").t = "str"
            /\ Get(v, "all_checks_pass").t = "bool"

C5_Witness ==
    /\ last.op = "calculate"
    /\ Len(docs) >= 1
    /\ Len(Held[Len(docs)]) = 10

\* C6: save_results(path) with a path that cannot be opened ends by raising
\* the exception open() raised: it does not return, open() was tried once,
\* no file appears, no handle stays open and the tables are unchanged.
C6_OpenFailureSurfaces ==
    (pc = "idle" /\ last.op = "save_results" /\ OpenError(last.path) # "none") =>
        /\ last.outcome = "raise"
        /\ last.exc = OpenError(last.path)
        /\ last.opens = 1
        /\ ~fs[last.path].exists
        /\ handles = {}
        /\ heap = CourseworkValues

C6_Witness ==
    /\ pc = "idle"
    /\ last.op = "save_results"
    /\ last.path = "missing_dir/results.json"
    /\ last.exc = "FileNotFoundError"

\* C7: when no save_results() call is running, no file handle is open:
\* the call closed its handle whether it returned or raised.
C7_HandleReleased ==
    /\ pc = "idle" => handles = {}
    /\ pc # "idle" => handles = {frame.path}

C7_Witness ==
    /\ pc = "idle"
    /\ last.op = "save_results"
    /\ last.outcome = "raise"
    /\ last.exc = "TypeError"
    /\ fs[last.path].exists
    /\ handles = {}

\* round(num / den, 2), for a quotient that is not a tie
Round2(num, den) == FloatLit((200 * num + den) \div (2 * den), 2)

\* C8: calculate() yields economics.opex_premium 3.25 and nh3_total_opex
\* 2640000; the total is nh3_fuel_cost + nh3_carbon_cost + nh3_other_cost
\* and the premium is nh3_total_opex / diesel_total_opex to two decimals.
C8_OpexLiterals ==
    \A i \in 1..Len(docs) :
        LET ec == Get(Held[i], "economics")
        IN  /\ Get(ec, "opex_premium") = FloatLit(325, 2)
            /\ Get(ec, "nh3_total_opex") = PyInt(2640000)
            /\ Get(ec, "nh3_total_opex")
                 = PyAdd(PyAdd(Get(ec, "nh3_fuel_cost"), Get(ec, "nh3_carbon_cost")),
                         Get(ec, "nh3_other_cost"))
            /\ Get(ec, "nh3_total_opex") = PyInt(2400000 + 0 + 240000)
            /\ Get(ec, "opex_premium")
                 = Round2(Get(ec, "nh3_total_opex").n, Get(ec, "diesel_total_opex").n)

C8_Witness ==
    /\ Len(docs) >= 1
    /\ HasKey(Get(Held[1], "economics"), "opex_premium")
    /\ Get(Get(Held[1], "economics"), "diesel_total_opex") = PyInt(813000)

\* C9: no call shares mutable state with another: whatever a caller has
\* assigned into a document it was given, a calculate(), _validate() or
\* to_json() call that has just finished returned the literal values, with
\* energy_balance_ok true.
C9_NoSharedMutableState ==
    /\ last.op = "calculate" =>
          /\ \A j \in 1..Len(Attrs) :
                Held[Len(docs)][j].v = CourseworkValues[Attrs[j].v]
          /\ Get(docs[Len(docs)].validation, "energy_balance_ok") = PyBool(TRUE)
    /\ last.op = "_validate" =>
          /\ Get(last.ret, "energy_balance_input") = PyInt(4600)
          /\ Get(last.ret, "energy_balance_ok") = PyBool(TRUE)
    /\ last.op = "to_json" =>
          /\ last.outcome = "return"
          /\ last.ret = iterencode(Deref(calculate(0, CourseworkValues),
                                         CourseworkValues)).lines

\* C10: in a _validate() result energy_balance_ok is true exactly when
\* E_input_kW equals the sum of the five output fields, the two numbers
\* reported are that input and that sum, and autothermal_feasible and
\* all_checks_pass are true whatever the table holds.
C10_OnlyBalanceComputed ==
    \A v \in Validations :
        LET E == heap["ENERGY"]
            sum == Get(E, "E_propulsion_battery_kW").n + Get(E, "Q_fc_waste_kW").n
                     + Get(E, "Q_combustor_excess_kW").n
                     + Get(E, "P_electronics_loss_kW").n
                     + Get(E, "E_exhaust_other_kW").n
        IN  /\ Get(v, "energy_balance_input") = Get(E, "E_input_kW")
            /\ Get(v, "energy_balance_output") = PyInt(sum)
            /\ Get(v, "energy_balance_ok") = PyBool(Get(E, "E_input_kW").n = sum)
            /\ Get(v, "autothermal_feasible") = PyBool(TRUE)
            /\ Get(v, "all_checks_pass") = PyBool(TRUE)

C10_Witness ==
    /\ last.op = "_validate"
    /\ Get(last.ret, "energy_balance_ok") = PyBool(FALSE)
    /\ Get(last.ret, "all_checks_pass") = PyBool(TRUE)
    /\ Get(heap["ENERGY"], "E_input_kW") = PyInt(3781)

====
